---- MODULE Spec2Model ----
(***************************************************************************)
(* littleChef: the document / operation-log engine.                        *)
(*                                                                         *)
(*   packages/dsl/src/helpers.ts   applyOp, applyOps, the hierarchy        *)
(*                                 accessors, groupNodes, ungroupNodes     *)
(*   packages/dsl/src/schemas.ts   validateOps (zod)                       *)
(*   apps/server/src/store.ts      Store                                   *)
(*   apps/server/src/routes.ts     POST /v1/doc, /v1/ops, /v1/generate     *)
(*   apps/server/src/index.ts      GET /v1/sync (WebSocket)                *)
(*   apps/web/src/pages/doc/[id]   the editor's local document             *)
(*                                                                         *)
(* Spec       the server: store, HTTP handlers, WebSocket subscribers.     *)
(* SpecFanout the server with two WebSockets, mutated by POST /v1/ops.      *)
(* SpecDocs   the server with two documents and two WebSockets, mutated by *)
(*            POST /v1/ops.                                                *)
(* SpecLoad   the server with one document, mutated by POST /v1/ops with   *)
(*            every kind of validated operation, and the editor page       *)
(*            loading the document.                                        *)
(* SpecEngine the editor's local document, to which handleDocChange        *)
(*            applies operation batches of all seven kinds unvalidated.    *)
(***************************************************************************)
EXTENDS Integers, Sequences, FiniteSets, TLC

(***************************************************************************)
(* Bounds of the model.                                                    *)
(***************************************************************************)
\* cap on the length of a document's operation log (server)
MaxLog == 2
\* cap on the length of one submitted batch (server)
MaxBatch == 2
\* cap on the number of messages sent to one WebSocket (server)
MaxInbox == 2
\* cap on the number of POST /v1/generate requests that reach the service
MaxGenerate == 1
\* cap on the number of batches applied to the editor's local document
MaxEdits == 3

(***************************************************************************)
(* Values.  A node is a record                                             *)
(*   [id, type, x, y, width, height, parentId, hasChildren, children].     *)
(* parentId = NoParent models an absent (undefined) parentId, which the    *)
(* code tests by falsiness; hasChildren = FALSE models an absent children  *)
(* array (an empty array is present and truthy in JavaScript).             *)
(***************************************************************************)
NodeIds == {"a", "b", "c"}
NoParent == ""
DocIds == {"d1"}
Channels == {"w1"}
Reqs == {"r1"}

\* createRectNode-like node literal: what a caller passes to an add
MkNode(id, type, x, y, w, h, p, hasC, c) ==
  [id |-> id, type |-> type, x |-> x, y |-> y, width |-> w, height |-> h,
   parentId |-> p, hasChildren |-> hasC, children |-> c]

\* createRectNode({x, y}): width and height default to 100, no parent, no children
RectNode(id, x, y) == MkNode(id, "rect", x, y, 100, 100, NoParent, FALSE, <<>>)

\* doc.nodes.find(n => n.id === id): index of the first match, 0 if none
RECURSIVE FindFrom(_, _, _)
FindFrom(nodes, id, i) ==
  IF i > Len(nodes) THEN 0
  ELSE IF nodes[i].id = id THEN i
  ELSE FindFrom(nodes, id, i + 1)

FindNode(nodes, id) == FindFrom(nodes, id, 1)

HasNode(nodes, id) == FindNode(nodes, id) # 0

\* mutant: the merged node starts from a blank position: y falls back to 0
\* unless the patch names it
MergeResetting(node, patch) ==
  [f \in DOMAIN node |->
     IF f \in DOMAIN patch THEN patch[f] ELSE IF f = "y" THEN 0 ELSE node[f]]

\* { ...node, ...patch }: the patch's keys override the node's
Merge(node, patch) ==
  [f \in DOMAIN node |-> IF f \in DOMAIN patch THEN patch[f] ELSE node[f]]

SeqRange(s) == {s[i] : i \in 1..Len(s)}

(***************************************************************************)
(* Operations (types.ts Op).  A null parentId of a reparent is NoParent.   *)
(***************************************************************************)
OpAdd(n) == [t |-> "add", node |-> n]
OpUpdate(id, patch) == [t |-> "update", id |-> id, patch |-> patch]
OpRemove(id) == [t |-> "remove", id |-> id]
OpReorder(id, z) == [t |-> "reorder", id |-> id, z |-> z]
OpReparent(id, p) == [t |-> "reparent", id |-> id, parentId |-> p]
OpAddChild(p, c) == [t |-> "addChild", parentId |-> p, childId |-> c]
OpRemoveChild(p, c) == [t |-> "removeChild", parentId |-> p, childId |-> c]

(***************************************************************************)
(* applyOp, case 'remove': collectChildren recurses through the children   *)
(* lists with no visited set.  A call chain longer than the number of      *)
(* nodes plus one repeats a node id, so the recursion never ends and the   *)
(* engine raises RangeError (stack overflow): overflow = TRUE.             *)
(***************************************************************************)
RECURSIVE CollectChildren(_, _, _)
CollectChildren(nodes, nodeId, fuel) ==
  IF fuel = 0 THEN [overflow |-> TRUE, ids |-> {nodeId}]
  ELSE
    LET i == FindNode(nodes, nodeId)
        kids == IF i # 0 /\ nodes[i].hasChildren THEN SeqRange(nodes[i].children) ELSE {}
        sub == {CollectChildren(nodes, c, fuel - 1) : c \in kids}
    IN [overflow |-> \E r \in sub : r.overflow,
        ids |-> {nodeId} \cup UNION {r.ids : r \in sub}]

NodesToRemove(nodes, id) == CollectChildren(nodes, id, Len(nodes) + 2)

\* mutant: a remove that matches no node drops the first node of the list
RemoveNodesDangling(nodes, id) ==
  LET gone == NodesToRemove(nodes, id).ids
  IN IF HasNode(nodes, id) \/ nodes = <<>>
     THEN SelectSeq(nodes, LAMBDA n : n.id \notin gone)
     ELSE Tail(nodes)

RemoveNodes(nodes, id) ==
  LET gone == NodesToRemove(nodes, id).ids
  IN SelectSeq(nodes, LAMBDA n : n.id \notin gone)

\* mutant: the version is not bumped
NextVersionStale(v) == v

\* version bump of applyOp (helpers.ts:400)
NextVersion(v) == v + 1

\* mutant: a reparent also drops the node's own children list
ReparentNodeDetaching(node, parentId) ==
  [node EXCEPT !.parentId = parentId, !.hasChildren = FALSE, !.children = <<>>]

\* case 'reparent': { ...node, parentId: op.parentId || undefined }
ReparentNode(node, parentId) == [node EXCEPT !.parentId = parentId]

\* node.children || []
ChildrenOrEmpty(node) == IF node.hasChildren THEN node.children ELSE <<>>

\* case 'addChild': { ...node, children: [...children, op.childId] }
AddChildTo(node, childId) ==
  [node EXCEPT !.hasChildren = TRUE,
               !.children = Append(ChildrenOrEmpty(node), childId)]

\* case 'removeChild': { ...node, children: children.filter(id => id !== op.childId) }
RemoveChildFrom(node, childId) ==
  [node EXCEPT !.hasChildren = TRUE,
               !.children = SelectSeq(ChildrenOrEmpty(node), LAMBDA c : c # childId)]

(***************************************************************************)
(* applyOp(doc, op).  A document value is [nodes, version]; the result     *)
(* carries threw = TRUE when the call raises instead of returning.         *)
(***************************************************************************)
ApplyOp(doc, op) ==
  LET nodes == doc.nodes
      newNodes ==
        CASE op.t = "add" -> Append(nodes, op.node)
          [] op.t = "update" ->
               [i \in 1..Len(nodes) |->
                  IF nodes[i].id = op.id THEN Merge(nodes[i], op.patch) ELSE nodes[i]]
          [] op.t = "remove" -> RemoveNodes(nodes, op.id)
          [] op.t = "reorder" ->
               [i \in 1..Len(nodes) |->
                  IF nodes[i].id = op.id THEN [nodes[i] EXCEPT !.y = op.z] ELSE nodes[i]]
          [] op.t = "reparent" ->
               [i \in 1..Len(nodes) |->
                  IF nodes[i].id = op.id
                  THEN ReparentNode(nodes[i], op.parentId)
                  ELSE nodes[i]]
          [] op.t = "addChild" ->
               [i \in 1..Len(nodes) |->
                  IF nodes[i].id = op.parentId
                  THEN AddChildTo(nodes[i], op.childId)
                  ELSE nodes[i]]
          [] op.t = "removeChild" ->
               [i \in 1..Len(nodes) |->
                  IF nodes[i].id = op.parentId
                  THEN RemoveChildFrom(nodes[i], op.childId)
                  ELSE nodes[i]]
          [] OTHER -> nodes
      overflow == op.t = "remove" /\ NodesToRemove(nodes, op.id).overflow
  IN IF doc.threw \/ overflow
     THEN [threw |-> TRUE, nodes |-> doc.nodes, version |-> doc.version]
     ELSE [threw |-> FALSE, nodes |-> newNodes, version |-> NextVersion(doc.version)]

\* applyOps(doc, ops) == ops.reduce(applyOp, doc)
RECURSIVE ApplyOps(_, _)
ApplyOps(doc, ops) ==
  IF ops = <<>> THEN doc
  ELSE ApplyOps(ApplyOp(doc, Head(ops)), Tail(ops))

\* mutant: an add pushes the node onto the input document's own node array
ApplyOpInputInPlace(doc, op) ==
  IF op.t = "add" THEN [doc EXCEPT !.nodes = Append(@, op.node)] ELSE doc

\* the input document object once applyOp(doc, op) has returned or raised:
\* every case builds its result with spread, map and filter, and no statement
\* assigns to doc, to doc.nodes or to a node
ApplyOpInput(doc, op) == doc

\* the input document object once applyOps(doc, ops) has returned or raised:
\* reduce hands doc itself to the first applyOp only, later calls get new objects
ApplyOpsInput(doc, ops) == IF ops = <<>> THEN doc ELSE ApplyOpInput(doc, Head(ops))

Doc(nodes, version) == [threw |-> FALSE, nodes |-> nodes, version |-> version]

\* newDoc(): no nodes, version 0
NewDoc == Doc(<<>>, 0)

(***************************************************************************)
(* Hierarchy accessors (helpers.ts:558-604).  The recursive ones have no   *)
(* visited set either; overflow = TRUE when the recursion never ends.      *)
(***************************************************************************)
RECURSIVE Concat(_)
Concat(lists) == IF lists = <<>> THEN <<>> ELSE Head(lists) \o Concat(Tail(lists))

\* getAllDescendants, inner collectDescendants(childId): the nodes pushed
RECURSIVE CollectDescendants(_, _, _)
CollectDescendants(nodes, childId, fuel) ==
  IF fuel = 0 THEN [overflow |-> TRUE, list |-> <<>>]
  ELSE
    LET i == FindNode(nodes, childId)
    IN IF i = 0 THEN [overflow |-> FALSE, list |-> <<>>]
       ELSE IF ~nodes[i].hasChildren THEN [overflow |-> FALSE, list |-> <<nodes[i]>>]
       ELSE LET sub == [k \in 1..Len(nodes[i].children) |->
                          CollectDescendants(nodes, nodes[i].children[k], fuel - 1)]
            IN [overflow |-> \E k \in 1..Len(sub) : sub[k].overflow,
                list |-> <<nodes[i]>> \o Concat([k \in 1..Len(sub) |-> sub[k].list])]

GetAllDescendants(nodes, nodeId) ==
  LET i == FindNode(nodes, nodeId)
  IN IF i = 0 \/ ~nodes[i].hasChildren THEN [overflow |-> FALSE, list |-> <<>>]
     ELSE LET sub == [k \in 1..Len(nodes[i].children) |->
                        CollectDescendants(nodes, nodes[i].children[k], Len(nodes) + 2)]
          IN [overflow |-> \E k \in 1..Len(sub) : sub[k].overflow,
              list |-> Concat([k \in 1..Len(sub) |-> sub[k].list])]

\* getNodeDepth: 1 + the depth of the parent, 0 for a node without parentId
RECURSIVE GetNodeDepthFrom(_, _, _)
GetNodeDepthFrom(nodes, nodeId, fuel) ==
  IF fuel = 0 THEN [overflow |-> TRUE, value |-> 0]
  ELSE
    LET i == FindNode(nodes, nodeId)
    IN IF i = 0 \/ nodes[i].parentId = NoParent THEN [overflow |-> FALSE, value |-> 0]
       ELSE LET r == GetNodeDepthFrom(nodes, nodes[i].parentId, fuel - 1)
            IN [overflow |-> r.overflow, value |-> 1 + r.value]

GetNodeDepth(nodes, nodeId) == GetNodeDepthFrom(nodes, nodeId, Len(nodes) + 2)

\* isAncestor: walks the parentId chain upwards from descendantId
RECURSIVE IsAncestorFrom(_, _, _, _)
IsAncestorFrom(nodes, ancestorId, descendantId, fuel) ==
  IF fuel = 0 THEN [overflow |-> TRUE, value |-> FALSE]
  ELSE
    LET i == FindNode(nodes, descendantId)
    IN IF i = 0 \/ nodes[i].parentId = NoParent THEN [overflow |-> FALSE, value |-> FALSE]
       ELSE IF nodes[i].parentId = ancestorId THEN [overflow |-> FALSE, value |-> TRUE]
       ELSE IsAncestorFrom(nodes, ancestorId, nodes[i].parentId, fuel - 1)

IsAncestor(nodes, ancestorId, descendantId) ==
  IsAncestorFrom(nodes, ancestorId, descendantId, Len(nodes) + 2)

\* canReparent: a falsy newParentId (null) is always allowed
CanReparent(nodes, nodeId, newParentId) ==
  IF newParentId = NoParent THEN [overflow |-> FALSE, value |-> TRUE]
  ELSE IF nodeId = newParentId THEN [overflow |-> FALSE, value |-> FALSE]
  ELSE LET r == IsAncestor(nodes, nodeId, newParentId)
       IN [overflow |-> r.overflow, value |-> ~r.value]

(***************************************************************************)
(* groupNodes / ungroupNodes (helpers.ts:606-703)                          *)
(***************************************************************************)
GroupPadding == 20
DefaultGroupSize == 200

MinOf(S) == CHOOSE m \in S : \A k \in S : m <= k
MaxOf(S) == CHOOSE m \in S : \A k \in S : m >= k

\* createGroupNode: options.width || 200, options.height || 200, children: []
CreateGroupNode(id, x, y, w, h) ==
  MkNode(id, "rect", x, y,
         IF w = 0 THEN DefaultGroupSize ELSE w,
         IF h = 0 THEN DefaultGroupSize ELSE h,
         NoParent, TRUE, <<>>)

\* mutant: ids that match no node are skipped instead of raising
GroupNodesLenient(nodes, nodeIds, groupId) ==
  LET found == SelectSeq(nodeIds, LAMBDA id : HasNode(nodes, id))
  IN IF Len(nodeIds) < 2 \/ found = <<>>
     THEN [threw |-> TRUE, ops |-> <<>>]
     ELSE
       LET sel == [k \in 1..Len(found) |-> nodes[FindNode(nodes, found[k])]]
           minX == MinOf({sel[k].x : k \in 1..Len(sel)})
           minY == MinOf({sel[k].y : k \in 1..Len(sel)})
           groupNode == CreateGroupNode(groupId, minX - GroupPadding, minY - GroupPadding, 0, 0)
       IN [threw |-> FALSE,
           ops |-> <<OpAdd(groupNode)>>
                   \o [k \in 1..Len(nodeIds) |-> OpReparent(nodeIds[k], groupId)]
                   \o <<OpUpdate(groupId, [hasChildren |-> TRUE, children |-> nodeIds])>>]

\* groupId is the id generateId() returns for the container
GroupNodes(nodes, nodeIds, groupId) ==
  IF Len(nodeIds) < 2 \/ \E k \in 1..Len(nodeIds) : ~HasNode(nodes, nodeIds[k])
  THEN [threw |-> TRUE, ops |-> <<>>]
  ELSE
    LET sel == [k \in 1..Len(nodeIds) |-> nodes[FindNode(nodes, nodeIds[k])]]
        minX == MinOf({sel[k].x : k \in 1..Len(sel)})
        minY == MinOf({sel[k].y : k \in 1..Len(sel)})
        maxX == MaxOf({sel[k].x + sel[k].width : k \in 1..Len(sel)})
        maxY == MaxOf({sel[k].y + sel[k].height : k \in 1..Len(sel)})
        groupNode == CreateGroupNode(groupId, minX - GroupPadding, minY - GroupPadding,
                                     maxX - minX + GroupPadding * 2,
                                     maxY - minY + GroupPadding * 2)
    IN [threw |-> FALSE,
        ops |-> <<OpAdd(groupNode)>>
                \o [k \in 1..Len(nodeIds) |-> OpReparent(nodeIds[k], groupId)]
                \o <<OpUpdate(groupId, [hasChildren |-> TRUE, children |-> nodeIds])>>]

UngroupNodes(nodes, groupId) ==
  LET i == FindNode(nodes, groupId)
  IN IF i = 0 \/ ~nodes[i].hasChildren
     THEN [threw |-> TRUE, ops |-> <<>>]
     ELSE [threw |-> FALSE,
           ops |-> [k \in 1..Len(nodes[i].children) |->
                      OpReparent(nodes[i].children[k], NoParent)]
                   \o <<OpRemove(groupId)>>]

(***************************************************************************)
(* validateOps (schemas.ts): OpsSchema = z.array(OpSchema).  OpSchema is a *)
(* discriminated union of add / update / remove / reorder only; any other  *)
(* tag fails the parse.  NodeSchema is a z.object, which checks the        *)
(* geometry and strips the keys it does not declare (parentId, children).  *)
(* parse() throws when any element fails: all or nothing.                  *)
(***************************************************************************)
ValidNode(n) ==
  /\ n.id # ""
  /\ n.type \in {"rect", "text", "button", "image"}
  /\ n.x >= 0 /\ n.y >= 0
  /\ n.width >= 1 /\ n.height >= 1

StripNode(n) ==
  [n EXCEPT !.parentId = NoParent, !.hasChildren = FALSE, !.children = <<>>]

ValidOp(op) ==
  CASE op.t = "add" -> ValidNode(op.node)
    [] op.t = "update" -> op.id # ""
    [] op.t = "remove" -> op.id # ""
    [] op.t = "reorder" -> op.id # ""
    [] OTHER -> FALSE

ParseOp(op) == IF op.t = "add" THEN OpAdd(StripNode(op.node)) ELSE op

\* mutant: the elements that fail are dropped and the rest is accepted
ValidateOpsLenient(json) ==
  [ok |-> TRUE,
   ops |-> LET good == SelectSeq(json, ValidOp)
           IN [i \in 1..Len(good) |-> ParseOp(good[i])]]

ValidateOps(json) ==
  [ok |-> \A i \in 1..Len(json) : ValidOp(json[i]),
   ops |-> [i \in 1..Len(json) |-> ParseOp(json[i])]]

(***************************************************************************)
(* LLMClient.applyConstraints (llm.ts): geometry of generated adds and     *)
(* updates is snapped to the 8px grid.                                     *)
(***************************************************************************)
GridSize == 8

\* Math.round(value / 8) * 8; Math.round rounds halves up
SnapToGrid(v) == ((2 * v + GridSize) \div (2 * GridSize)) * GridSize

MinButtonHeight == 44

\* Math.max(height, 44)
EnsureMinButtonHeight(h) == IF h > MinButtonHeight THEN h ELSE MinButtonHeight

\* a snapped patch.height that is truthy (non-zero) is raised to the minimum
SnapPatch(patch) ==
  [f \in DOMAIN patch |->
     IF f \in {"x", "y", "width"} THEN SnapToGrid(patch[f])
     ELSE IF f = "height"
          THEN IF SnapToGrid(patch[f]) # 0
               THEN EnsureMinButtonHeight(SnapToGrid(patch[f]))
               ELSE SnapToGrid(patch[f])
     ELSE patch[f]]

ConstrainOp(op) ==
  CASE op.t = "add" ->
         OpAdd([op.node EXCEPT
                  !.x = SnapToGrid(@), !.y = SnapToGrid(@),
                  !.width = SnapToGrid(@),
                  !.height = IF op.node.type = "button"
                             THEN EnsureMinButtonHeight(SnapToGrid(@))
                             ELSE SnapToGrid(@)])
    [] op.t = "update" -> OpUpdate(op.id, SnapPatch(op.patch))
    [] OTHER -> op

ApplyConstraints(ops) == [i \in 1..Len(ops) |-> ConstrainOp(ops[i])]

(***************************************************************************)
(* State.                                                                  *)
(*   docs, opLogs, subscribers   the Store's three maps (store.ts:5-7);    *)
(*                               a key is present once it has been set     *)
(*   reqs     POST /v1/generate requests: "idle", or "awaiting" the        *)
(*            generation service with the document read before the await   *)
(*   wsState  each WebSocket: "new", "open" (subscribed), "closed"         *)
(*   inbox    the messages each WebSocket has been sent, in order          *)
(*   edDoc    the editor page's local document (useState<Doc>)             *)
(* History variables (not program state):                                  *)
(*   snapAt   per document, the node list the engine produced at each      *)
(*            version, for as long as only POST /v1/ops batches have been  *)
(*            stored                                                       *)
(*   last     what the latest mutation handler did                         *)
(*   genSeen  documents on which a generated batch has been stored         *)
(*   genCount how many generation requests have reached the service        *)
(*   edLast   the latest batch handed to the editor's handleDocChange      *)
(*   edCount  how many batches the editor has handled                      *)
(***************************************************************************)
VARIABLES docs, opLogs, subscribers, reqs, wsState, inbox,
          edDoc, snapAt, last, genSeen, genCount, edLast, edCount

vars == <<docs, opLogs, subscribers, reqs, wsState, inbox,
          edDoc, snapAt, last, genSeen, genCount, edLast, edCount>>

serverVars ==
  <<docs, opLogs, subscribers, reqs, wsState, inbox, snapAt, last, genSeen, genCount>>
editorVars == <<edDoc, edLast, edCount>>

EmptyMap == [x \in {} |-> x]

\* Map.prototype.set
MapSet(m, k, v) == [x \in DOMAIN m \cup {k} |-> IF x = k THEN v ELSE m[x]]

\* Map.prototype.delete
MapDelete(m, k) == [x \in DOMAIN m \ {k} |-> m[x]]

(***************************************************************************)
(* Store (store.ts)                                                        *)
(***************************************************************************)
\* this.opLogs.get(docId) || []
GetAllOps(logs, docId) == IF docId \in DOMAIN logs THEN logs[docId] ELSE <<>>

\* mutant: the log is replaced by the new operations
AppendOpsReplace(logs, docId, ops) ==
  [x \in DOMAIN logs \cup {docId} |-> IF x = docId THEN ops ELSE logs[x]]

\* mutant: the new operations are put in front of the log
AppendOpsPrepend(logs, docId, ops) ==
  [x \in DOMAIN logs \cup {docId} |->
     IF x = docId THEN ops \o (IF docId \in DOMAIN logs THEN logs[docId] ELSE <<>>)
     ELSE logs[x]]

\* appendOps: [...existingOps, ...ops]
AppendOps(logs, docId, ops) == MapSet(logs, docId, GetAllOps(logs, docId) \o ops)

\* Array.prototype.slice(start) with an integer start
Slice(s, start) ==
  LET n == Len(s)
      from == IF start < 0 THEN (IF n + start < 0 THEN 0 ELSE n + start)
              ELSE IF start > n THEN n ELSE start
  IN SubSeq(s, from + 1, n)

\* mutant: the slice starts one operation late
GetOpsSinceOffByOne(logs, docId, version) == Slice(GetAllOps(logs, docId), version + 1)

\* getOpsSince: allOps.slice(version)
GetOpsSince(logs, docId, version) == Slice(GetAllOps(logs, docId), version)

\* subscribe: create the set on first use, then add
Subscribe(subs, docId, ws) ==
  MapSet(subs, docId, (IF docId \in DOMAIN subs THEN subs[docId] ELSE {}) \cup {ws})

\* mutant: the socket stays in the set
UnsubscribeNoop(subs, docId, ws) == subs

\* unsubscribe: delete, and drop the entry when the set becomes empty
Unsubscribe(subs, docId, ws) ==
  IF docId \notin DOMAIN subs THEN subs
  ELSE IF subs[docId] \ {ws} = {} THEN MapDelete(subs, docId)
  ELSE MapSet(subs, docId, subs[docId] \ {ws})

\* the channels broadcast iterates over
SubscribersOf(subs, docId) == IF docId \in DOMAIN subs THEN subs[docId] ELSE {}

\* mutant: a channel whose send throws stays in the set
BroadcastSubsKeep(subs, docId, failed) == subs

\* broadcast: channels whose send throws are deleted from the set
BroadcastSubs(subs, docId, failed) ==
  IF docId \in DOMAIN subs THEN MapSet(subs, docId, subs[docId] \ failed) ELSE subs

\* mutant: the message is sent to the subscribers of every document
BroadcastInboxAll(box, subs, docId, failed, msg) ==
  [w \in DOMAIN box |->
     IF \E d \in DOMAIN subs : w \in subs[d] \ failed THEN Append(box[w], msg) ELSE box[w]]

\* mutant: only one of the channels is sent the message
BroadcastInboxFirstOnly(box, subs, docId, failed, msg) ==
  LET to == IF docId \in DOMAIN subs THEN subs[docId] \ failed ELSE {}
  IN [w \in DOMAIN box |->
        IF to # {} /\ w = (CHOOSE x \in to : TRUE) THEN Append(box[w], msg) ELSE box[w]]

\* broadcast: every channel whose send succeeds gets the message
BroadcastInbox(box, subs, docId, failed, msg) ==
  [w \in DOMAIN box |->
     IF w \in SubscribersOf(subs, docId) \ failed THEN Append(box[w], msg) ELSE box[w]]

(***************************************************************************)
(* Inputs of the server's handlers.                                        *)
(***************************************************************************)
ChildrenPatch(c) == [hasChildren |-> TRUE, children |-> c]

\* payload elements a client or the generation service may send
RawOps ==
  { OpAdd([RectNode("a", 4, 12) EXCEPT !.parentId = "b"]),
    OpRemove("a"),
    OpReparent("b", "a") }

RECURSIVE SeqsUpTo(_, _)
SeqsUpTo(S, n) ==
  IF n = 0 THEN {<<>>}
  ELSE LET shorter == SeqsUpTo(S, n - 1)
       IN shorter \cup {Append(q, x) : q \in {r \in shorter : Len(r) = n - 1}, x \in S}

Payloads == SeqsUpTo(RawOps, MaxBatch)

\* the docId of a request: a document id, or "" for a missing parameter
ReqDocIds == DocIds \cup {""}

\* overlapped (history): a POST /v1/ops batch was stored for the request's
\* document while the request was awaiting the generation service
IdleReq == [state |-> "idle", docId |-> "", doc |-> NewDoc, overlapped |-> FALSE]
AwaitingReq(d, doc) == [state |-> "awaiting", docId |-> d, doc |-> doc, overlapped |-> FALSE]

\* last (history): the handler h, its document, whether the batch was stored (ok),
\* the batch size n, the stored version before (pre) and after (post), and the
\* HTTP status of the reply (code)
NoLast ==
  [h |-> "none", docId |-> "", ok |-> FALSE, n |-> 0, pre |-> 0, post |-> 0,
   overlapped |-> FALSE, code |-> 0]
\* the catch blocks: 400 from POST /v1/ops, 422 from POST /v1/generate
Rejected(h, d) ==
  [h |-> h, docId |-> d, ok |-> FALSE, n |-> 0, pre |-> 0, post |-> 0,
   overlapped |-> FALSE, code |-> IF h = "ops" THEN 400 ELSE 422]
\* store.getDoc found nothing: 404
NotFound(h, d) ==
  [h |-> h, docId |-> d, ok |-> FALSE, n |-> 0, pre |-> 0, post |-> 0,
   overlapped |-> FALSE, code |-> 404]
Accepted(h, d, n, pre, post, overlapped) ==
  [h |-> h, docId |-> d, ok |-> TRUE, n |-> n, pre |-> pre, post |-> post,
   overlapped |-> overlapped, code |-> 200]

OpsMsg(ops, version) == [type |-> "ops", ops |-> ops, version |-> version]
HelloMsg(doc) == [type |-> "hello", version |-> doc.version, snapshot |-> doc.nodes]

\* history: the node list after each operation of a batch applied to doc
RECURSIVE Record(_, _, _)
Record(hist, doc, ops) ==
  IF ops = <<>> THEN hist
  ELSE LET d1 == ApplyOp(doc, Head(ops))
       IN Record(MapSet(hist, d1.version, d1.nodes), d1, Tail(ops))

NoEdit == [kind |-> "none", ops |-> <<>>, threw |-> FALSE]
Edit(kind, ops, threw) == [kind |-> kind, ops |-> ops, threw |-> threw]

InitServer ==
  /\ docs = EmptyMap
  /\ opLogs = EmptyMap
  /\ subscribers = EmptyMap
  /\ reqs = [r \in Reqs |-> IdleReq]
  /\ wsState = [w \in Channels |-> [st |-> "new", docId |-> ""]]
  /\ inbox = [w \in Channels |-> <<>>]
  /\ snapAt = EmptyMap
  /\ last = NoLast
  /\ genSeen = {}
  /\ genCount = 0

Init ==
  /\ InitServer
  /\ edDoc = NewDoc
  /\ edLast = NoEdit
  /\ edCount = 0

(***************************************************************************)
(* POST /v1/doc (routes.ts:10-22): newDoc, store.createDoc.                *)
(***************************************************************************)
CreateDoc(d) ==
  /\ d \notin DOMAIN docs
  /\ docs' = MapSet(docs, d, NewDoc)
  /\ opLogs' = MapSet(opLogs, d, <<>>)
  /\ snapAt' = MapSet(snapAt, d, MapSet(EmptyMap, 0, <<>>))
  /\ UNCHANGED <<subscribers, reqs, wsState, inbox, last, genSeen, genCount, editorVars>>

(***************************************************************************)
(* The store updates and broadcast shared by the two mutation handlers:    *)
(* store.updateDoc, store.appendOps, store.broadcast (routes.ts:67-76,     *)
(* 103-112).                                                               *)
(***************************************************************************)
\* mutant: the snapshot stored holds the first operation of the batch only
PublishPartial(d, updatedDoc, ops, failed) ==
  /\ \A w \in SubscribersOf(subscribers, d) \ failed : Len(inbox[w]) < MaxInbox
  /\ docs' = MapSet(docs, d, IF Len(ops) >= 2 THEN ApplyOp(docs[d], Head(ops)) ELSE updatedDoc)
  /\ opLogs' = AppendOps(opLogs, d, ops)
  /\ subscribers' = BroadcastSubs(subscribers, d, failed)
  /\ inbox' = BroadcastInbox(inbox, subscribers, d, failed, OpsMsg(ops, updatedDoc.version))

\* mutant: the delta is broadcast with the version read before the batch
PublishStaleVersion(d, updatedDoc, ops, failed) ==
  /\ \A w \in SubscribersOf(subscribers, d) \ failed : Len(inbox[w]) < MaxInbox
  /\ docs' = MapSet(docs, d, updatedDoc)
  /\ opLogs' = AppendOps(opLogs, d, ops)
  /\ subscribers' = BroadcastSubs(subscribers, d, failed)
  /\ inbox' = BroadcastInbox(inbox, subscribers, d, failed, OpsMsg(ops, docs[d].version))

Publish(d, updatedDoc, ops, failed) ==
  /\ \A w \in SubscribersOf(subscribers, d) \ failed : Len(inbox[w]) < MaxInbox
  /\ docs' = MapSet(docs, d, updatedDoc)
  /\ opLogs' = AppendOps(opLogs, d, ops)
  /\ subscribers' = BroadcastSubs(subscribers, d, failed)
  /\ inbox' = BroadcastInbox(inbox, subscribers, d, failed, OpsMsg(ops, updatedDoc.version))

\* the documents held by the POST /v1/generate requests that await, once
\* applyOps(store.getDoc(d), ops) has run: a request that read d's stored
\* object holds the very object applyOps was handed; stored marks the requests
\* of d as overlapped by a stored batch
HeldAfterApply(d, ops, stored) ==
  [r \in Reqs |->
     IF reqs[r].state = "awaiting" /\ reqs[r].docId = d
     THEN [reqs[r] EXCEPT
             !.doc = IF reqs[r].doc = docs[d] THEN ApplyOpsInput(docs[d], ops) ELSE @,
             !.overlapped = @ \/ stored]
     ELSE reqs[r]]

(***************************************************************************)
(* POST /v1/ops (routes.ts:50-83).  The handler has no await: it runs to   *)
(* completion as one step.                                                 *)
(***************************************************************************)
PostOps(d, json, failed) ==
  /\ Len(GetAllOps(opLogs, d)) + Len(json) <= MaxLog
  /\ failed \subseteq SubscribersOf(subscribers, d)
  /\ LET v == ValidateOps(json)
         doc == docs[d]
         updatedDoc == ApplyOps(doc, v.ops)
     IN IF ~v.ok \/ d \notin DOMAIN docs \/ updatedDoc.threw
        THEN /\ failed = {}
             /\ last' = IF v.ok /\ d \notin DOMAIN docs
                        THEN NotFound("ops", d) ELSE Rejected("ops", d)
             /\ reqs' = IF v.ok /\ d \in DOMAIN docs THEN HeldAfterApply(d, v.ops, FALSE) ELSE reqs
             /\ UNCHANGED <<docs, opLogs, subscribers, inbox, snapAt, genSeen>>
        ELSE /\ Publish(d, updatedDoc, v.ops, failed)
             /\ snapAt' = IF d \in genSeen THEN snapAt
                         ELSE MapSet(snapAt, d, Record(snapAt[d], doc, v.ops))
             /\ last' = Accepted("ops", d, Len(v.ops), doc.version, updatedDoc.version, FALSE)
             /\ reqs' = HeldAfterApply(d, v.ops, v.ops # <<>>)
             /\ UNCHANGED genSeen
  /\ UNCHANGED <<wsState, genCount, editorVars>>

(***************************************************************************)
(* POST /v1/generate (routes.ts:86-120).  The handler reads the document,  *)
(* awaits llmClient.generateOps, and applies the result to the document it *)
(* read before the await.                                                  *)
(***************************************************************************)
\* mutant: an unknown document is created empty before the not-found reply
GenerateStartCreates(r, d) ==
  /\ reqs[r].state = "idle"
  /\ IF d \in DOMAIN docs
     THEN /\ genCount < MaxGenerate
          /\ reqs' = [reqs EXCEPT ![r] = AwaitingReq(d, docs[d])]
          /\ genCount' = genCount + 1
          /\ UNCHANGED <<last, docs, opLogs>>
     ELSE /\ last' = NotFound("generate", d)
          /\ docs' = MapSet(docs, d, NewDoc)
          /\ opLogs' = MapSet(opLogs, d, <<>>)
          /\ UNCHANGED <<reqs, genCount>>
  /\ UNCHANGED <<subscribers, wsState, inbox, snapAt, genSeen, editorVars>>

GenerateStart(r, d) ==
  /\ reqs[r].state = "idle"
  /\ IF d \in DOMAIN docs
     THEN /\ genCount < MaxGenerate
          /\ reqs' = [reqs EXCEPT ![r] = AwaitingReq(d, docs[d])]
          /\ genCount' = genCount + 1
          /\ UNCHANGED last
     ELSE /\ last' = NotFound("generate", d)
          /\ UNCHANGED <<reqs, genCount>>
  /\ UNCHANGED <<docs, opLogs, subscribers, wsState, inbox, snapAt, genSeen, editorVars>>

\* generateOps resolves: validateOps on the service's JSON, applyConstraints
GenerateResolve(r, json, failed) ==
  /\ reqs[r].state = "awaiting"
  /\ LET d == reqs[r].docId
         doc == reqs[r].doc
         v == ValidateOps(json)
         ops == ApplyConstraints(v.ops)
         updatedDoc == ApplyOps(doc, ops)
     IN /\ Len(GetAllOps(opLogs, d)) + Len(json) <= MaxLog
        /\ failed \subseteq SubscribersOf(subscribers, d)
        /\ IF ~v.ok \/ updatedDoc.threw
           THEN /\ failed = {}
                /\ last' = Rejected("generate", d)
                /\ UNCHANGED <<docs, opLogs, subscribers, inbox, snapAt, genSeen>>
           ELSE /\ Publish(d, updatedDoc, ops, failed)
                /\ snapAt' = MapSet(snapAt, d, EmptyMap)
                /\ last' = Accepted("generate", d, Len(ops), docs[d].version,
                                     updatedDoc.version, reqs[r].overlapped)
                /\ genSeen' = genSeen \cup {d}
  /\ reqs' = [reqs EXCEPT ![r] = IdleReq]
  /\ UNCHANGED <<wsState, genCount, editorVars>>

\* mutant: a failed generation still stores a snapshot with a raised version
GenerateFailBumps(r) ==
  /\ reqs[r].state = "awaiting"
  /\ reqs' = [reqs EXCEPT ![r] = IdleReq]
  /\ last' = Rejected("generate", reqs[r].docId)
  /\ docs' = MapSet(docs, reqs[r].docId,
                    [reqs[r].doc EXCEPT !.version = NextVersion(@)])
  /\ UNCHANGED <<opLogs, subscribers, wsState, inbox, snapAt, genSeen, genCount,
                 editorVars>>

\* generateOps rejects: service error, no text, invalid JSON
GenerateFail(r) ==
  /\ reqs[r].state = "awaiting"
  /\ reqs' = [reqs EXCEPT ![r] = IdleReq]
  /\ last' = Rejected("generate", reqs[r].docId)
  /\ UNCHANGED <<docs, opLogs, subscribers, wsState, inbox, snapAt, genSeen, genCount,
                 editorVars>>

(***************************************************************************)
(* GET /v1/sync (index.ts:58-103)                                          *)
(***************************************************************************)
\* mutant: the socket is subscribed before the document is looked up
WsConnectSubscribesFirst(w, d) ==
  /\ wsState[w].st = "new"
  /\ IF d = "" \/ d \notin DOMAIN docs
     THEN /\ wsState' = [wsState EXCEPT ![w] = [st |-> "closed", docId |-> ""]]
          /\ subscribers' = Subscribe(subscribers, d, w)
          /\ UNCHANGED inbox
     ELSE /\ subscribers' = Subscribe(subscribers, d, w)
          /\ inbox' = [inbox EXCEPT ![w] = Append(@, HelloMsg(docs[d]))]
          /\ wsState' = [wsState EXCEPT ![w] = [st |-> "open", docId |-> d]]
  /\ UNCHANGED <<docs, opLogs, reqs, snapAt, last, genSeen, genCount, editorVars>>

WsConnect(w, d) ==
  /\ wsState[w].st = "new"
  /\ IF d = "" \/ d \notin DOMAIN docs
     THEN /\ wsState' = [wsState EXCEPT ![w] = [st |-> "closed", docId |-> ""]]
          /\ UNCHANGED <<subscribers, inbox>>
     ELSE /\ subscribers' = Subscribe(subscribers, d, w)
          /\ inbox' = [inbox EXCEPT ![w] = Append(@, HelloMsg(docs[d]))]
          /\ wsState' = [wsState EXCEPT ![w] = [st |-> "open", docId |-> d]]
  /\ UNCHANGED <<docs, opLogs, reqs, snapAt, last, genSeen, genCount, editorVars>>

\* socket 'close' event: store.unsubscribe
WsClose(w) ==
  /\ wsState[w].st = "open"
  /\ subscribers' = Unsubscribe(subscribers, wsState[w].docId, w)
  /\ wsState' = [wsState EXCEPT ![w].st = "closed"]
  /\ UNCHANGED <<docs, opLogs, reqs, inbox, snapAt, last, genSeen, genCount, editorVars>>

Next ==
  \/ \E d \in DocIds : CreateDoc(d)
  \/ \E d \in ReqDocIds, json \in Payloads, failed \in SUBSET DOMAIN wsState :
       PostOps(d, json, failed)
  \/ \E r \in Reqs, d \in ReqDocIds : GenerateStart(r, d)
  \/ \E r \in Reqs, json \in Payloads, failed \in SUBSET DOMAIN wsState :
       GenerateResolve(r, json, failed)
  \/ \E r \in Reqs : GenerateFail(r)
  \/ \E w \in DOMAIN wsState, d \in ReqDocIds : WsConnect(w, d)
  \/ \E w \in DOMAIN wsState : WsClose(w)

Spec == Init /\ [][Next]_vars

(***************************************************************************)
(* The same server with two WebSockets, mutated through POST /v1/ops       *)
(* only: the fan-out of store.broadcast to several subscribers.            *)
(***************************************************************************)
FanoutChannels == {"w1", "w2"}

InitFanout ==
  /\ docs = EmptyMap
  /\ opLogs = EmptyMap
  /\ subscribers = EmptyMap
  /\ reqs = [r \in Reqs |-> IdleReq]
  /\ wsState = [w \in FanoutChannels |-> [st |-> "new", docId |-> ""]]
  /\ inbox = [w \in FanoutChannels |-> <<>>]
  /\ snapAt = EmptyMap
  /\ last = NoLast
  /\ genSeen = {}
  /\ genCount = 0
  /\ edDoc = NewDoc
  /\ edLast = NoEdit
  /\ edCount = 0

NextFanout ==
  \/ \E d \in DocIds : CreateDoc(d)
  \/ \E d \in ReqDocIds, json \in Payloads, failed \in SUBSET DOMAIN wsState :
       PostOps(d, json, failed)
  \/ \E w \in DOMAIN wsState, d \in ReqDocIds : WsConnect(w, d)
  \/ \E w \in DOMAIN wsState : WsClose(w)

SpecFanout == InitFanout /\ [][NextFanout]_vars

(***************************************************************************)
(* The same server with two documents and two WebSockets, mutated through  *)
(* POST /v1/ops with payloads of at most one element.                      *)
(***************************************************************************)
TwoDocIds == {"d1", "d2"}

\* the docId of a request to the two-document server, "" for a missing parameter
TwoReqDocIds == TwoDocIds \cup {""}

\* payloads of at most one element
ShortPayloads == SeqsUpTo(RawOps, 1)

\* the number of operations stored in the logs of the documents ids together
RECURSIVE TotalOps(_, _)
TotalOps(logs, ids) ==
  IF ids = {} THEN 0
  ELSE LET d == CHOOSE x \in ids : TRUE
       IN Len(logs[d]) + TotalOps(logs, ids \ {d})

DocsStep ==
  \/ \E d \in TwoDocIds : CreateDoc(d)
  \/ \E d \in TwoReqDocIds, json \in ShortPayloads, failed \in SUBSET DOMAIN wsState :
       PostOps(d, json, failed)
  \/ \E w \in DOMAIN wsState, d \in TwoReqDocIds : WsConnect(w, d)
  \/ \E w \in DOMAIN wsState : WsClose(w)

\* the handlers' steps, for as long as the logs together hold at most MaxLog operations
NextDocs ==
  /\ DocsStep
  /\ TotalOps(opLogs', DOMAIN opLogs') <= MaxLog

SpecDocs == InitFanout /\ [][NextDocs]_vars

(***************************************************************************)
(* The editor's local document (pages/doc/[id].tsx, Canvas.tsx).           *)
(* handleDocChange applies a batch with applyOps, unvalidated; when        *)
(* applyOps raises, setDoc is not reached and the document is unchanged.   *)
(***************************************************************************)
\* operations handed to handleDocChange one at a time
EdOps ==
  { OpAdd(RectNode("a", 0, 0)), OpAdd(RectNode("b", 40, 8)), OpAdd(RectNode("c", 16, 120)),
    OpUpdate("a", ChildrenPatch(<<"b", "c">>)),
    OpUpdate("b", [parentId |-> "a"]),
    OpUpdate("c", [y |-> 7]),
    OpUpdate("a", [width |-> -40]), OpUpdate("b", [width |-> -80]),
    OpRemove("a"), OpRemove("b"), OpRemove("c"),
    OpReorder("a", -5),
    OpReparent("a", "a"), OpReparent("b", "a"), OpReparent("c", "b"),
    OpReparent("a", "b"), OpReparent("b", NoParent),
    OpAddChild("a", "b"), OpAddChild("b", "c"), OpAddChild("b", "a"),
    OpRemoveChild("a", "b"), OpRemoveChild("b", "c") }

\* selections handed to handleGroupSelected
Selections == { <<"a", "b">>, <<"b", "c">>, <<"a">>, <<"a", "zz">> }

\* ids generateId() hands out for group containers
GenIds == {"g"}

\* ids handed to handleUngroupNode
UngroupIds == {"g", "a", "zz"}

\* the documents the editor may have loaded: empty, or three sibling nodes
LoadedDocs ==
  { NewDoc,
    Doc(<<RectNode("a", 0, 0), RectNode("b", 40, 8), RectNode("c", 16, 120)>>, 3) }

\* handleDocChange(ops)
HandleDocChange(kind, ops) ==
  LET updatedDoc == ApplyOps(edDoc, ops)
  IN /\ edCount < MaxEdits
     /\ edCount' = edCount + 1
     /\ edLast' = Edit(kind, ops, updatedDoc.threw)
     /\ edDoc' = IF updatedDoc.threw THEN edDoc ELSE updatedDoc
     /\ UNCHANGED serverVars

ApplyEdit(op) == HandleDocChange("apply", <<op>>)

\* handleGroupSelected (Canvas.tsx:134-145)
GroupSelected(selectedIds, groupId) ==
  LET g == GroupNodes(edDoc.nodes, selectedIds, groupId)
  IN /\ groupId \notin {edDoc.nodes[i].id : i \in 1..Len(edDoc.nodes)}
     /\ IF Len(selectedIds) < 2 \/ g.threw
        THEN /\ edCount < MaxEdits
             /\ edCount' = edCount + 1
             /\ edLast' = Edit("group", <<>>, TRUE)
             /\ UNCHANGED <<edDoc, serverVars>>
        ELSE HandleDocChange("group", g.ops)

\* handleUngroupNode (Canvas.tsx:148-157)
UngroupNode(nodeId) ==
  LET u == UngroupNodes(edDoc.nodes, nodeId)
  IN IF u.threw
     THEN /\ edCount < MaxEdits
          /\ edCount' = edCount + 1
          /\ edLast' = Edit("ungroup", <<>>, TRUE)
          /\ UNCHANGED <<edDoc, serverVars>>
     ELSE HandleDocChange("ungroup", u.ops)

InitEngine ==
  /\ InitServer
  /\ edDoc \in LoadedDocs
  /\ edLast = NoEdit
  /\ edCount = 0

NextEngine ==
  \/ \E op \in EdOps : ApplyEdit(op)
  \/ \E sel \in Selections, g \in GenIds : GroupSelected(sel, g)
  \/ \E id \in UngroupIds : UngroupNode(id)

SpecEngine == InitEngine /\ [][NextEngine]_vars

(***************************************************************************)
(* SpecLoad: one document, batches of every kind validateOps accepts, and  *)
(* the editor page loading the document (pages/doc/[id].tsx loadDocument). *)
(***************************************************************************)
\* payload elements: a valid add, an add of width 0, and update / reorder /
\* remove operations, whose schemas check the id only
LoadOps ==
  { OpAdd(RectNode("a", 4, 12)),
    OpAdd([RectNode("b", 0, 0) EXCEPT !.width = 0]),
    OpUpdate("a", [x |-> -8]),
    OpReorder("a", -5),
    OpRemove("a") }

LoadPayloads == SeqsUpTo(LoadOps, MaxBatch)

\* loadDocument(docId): fetchDoc(docId) carries no since parameter, so GET
\* /v1/doc/:id answers with the stored snapshot and getOpsSince(id, 0);
\* setDoc(snapshot), then setDoc(applyOps(snapshot, opsSince)) when opsSince
\* is not empty.  A 404 or a raise of applyOps lands in the catch block.
LoadDocument(d) ==
  /\ IF d \notin DOMAIN docs
     THEN /\ edLast' = Edit("load", <<>>, TRUE)
          /\ UNCHANGED edDoc
     ELSE LET snapshot == docs[d]
              opsSince == GetOpsSince(opLogs, d, 0)
              updatedDoc == ApplyOps(snapshot, opsSince)
          IN /\ edLast' = Edit("load", opsSince, updatedDoc.threw)
             /\ edDoc' = IF opsSince # <<>> /\ ~updatedDoc.threw
                         THEN updatedDoc ELSE snapshot
  /\ UNCHANGED <<serverVars, edCount>>

NextLoad ==
  \/ \E d \in DocIds : CreateDoc(d)
  \/ \E d \in DocIds, json \in LoadPayloads : PostOps(d, json, {})
  \/ \E d \in DocIds : LoadDocument(d)

SpecLoad == Init /\ [][NextLoad]_vars

(***************************************************************************)
(* Properties of the server (Spec)                                         *)
(***************************************************************************)

OpsOnlyDocs == DOMAIN docs \ genSeen

\* C2: catch-up completeness.  For every v from 0 to the current version, the
\* operations getOpsSince(id, v) returns, applied to the node list the document
\* had at version v, give the current node list.
C2_CatchUpComplete ==
  \A d \in OpsOnlyDocs :
    \A v \in 0..docs[d].version :
      /\ v \in DOMAIN snapAt[d]
      /\ LET r == ApplyOps(Doc(snapAt[d][v], v), GetOpsSince(opLogs, d, v))
         IN ~r.threw /\ r.nodes = docs[d].nodes

\* a document at version 2 with a node, reached by POST /v1/ops batches alone
C2_Witness ==
  \E d \in OpsOnlyDocs :
    /\ docs[d].version = 2
    /\ docs[d].nodes # <<>>
    /\ GetOpsSince(opLogs, d, 1) # <<>>

\* C3: replay determinism.  The whole stored log applied to the empty document
\* of version 0 gives the stored node list and the stored version.
C3_ReplayDeterminism ==
  \A d \in OpsOnlyDocs :
    LET r == ApplyOps(NewDoc, GetAllOps(opLogs, d))
    IN ~r.threw /\ r.nodes = docs[d].nodes /\ r.version = docs[d].version

\* two batches of one operation each have been stored by POST /v1/ops
C3_Witness ==
  \E d \in OpsOnlyDocs :
    /\ Len(GetAllOps(opLogs, d)) = 2
    /\ last.h = "ops" /\ last.ok /\ last.n = 1 /\ last.docId = d

\* C4: a generated batch stored after a POST /v1/ops batch was stored during its
\* await leaves a snapshot that the replay of the log reproduces (no batch lost).
C4_SerializedGenerate ==
  (last.h = "generate" /\ last.ok /\ last.overlapped) =>
     LET r == ApplyOps(NewDoc, GetAllOps(opLogs, last.docId))
     IN ~r.threw /\ r.nodes = docs[last.docId].nodes

\* C5: no step lowers the version of a stored snapshot.
C5_VersionNeverDecreases ==
  [][\A d \in DOMAIN docs : docs'[d].version >= docs[d].version]_vars

(***************************************************************************)
(* Properties of the operation engine (SpecEngine)                         *)
(***************************************************************************)
NodeIdsOf(nodes) == {nodes[i].id : i \in 1..Len(nodes)}

\* the ids listed in the children array of the first node with this id
ChildIdsOf(nodes, id) ==
  LET i == FindNode(nodes, id)
  IN IF i # 0 /\ nodes[i].hasChildren THEN SeqRange(nodes[i].children) ELSE {}

\* the ids of the nodes getAllDescendants returns: the closure over children lists
DescendantIds(nodes, id) ==
  LET list == GetAllDescendants(nodes, id).list
  IN {list[k].id : k \in 1..Len(list)}

\* the step is handleDocChange of the single operation op
IsEditStep(op) ==
  /\ edCount' = edCount + 1
  /\ edLast'.kind = "apply"
  /\ edLast'.ops = <<op>>

\* C6: a remove of a present node returns, and removes the node and the nodes
\* of its descendant closure and no other; the count of ids drops by 1 + the
\* number of descendants.
C6_CascadingDelete ==
  [][\A id \in NodeIdsOf(edDoc.nodes) :
       IsEditStep(OpRemove(id)) =>
         LET desc == DescendantIds(edDoc.nodes, id) \ {id}
         IN /\ ~edLast'.threw
            /\ edDoc'.nodes = SelectSeq(edDoc.nodes, LAMBDA n : n.id \notin desc \cup {id})
            /\ Cardinality(NodeIdsOf(edDoc.nodes)) - Cardinality(NodeIdsOf(edDoc'.nodes))
                 = 1 + Cardinality(desc)]_vars

\* C7: canReparent(doc, A, B) returns false whenever B = A or B is in the
\* descendant closure of A over the children lists.
C7_CycleGuard ==
  \A A \in NodeIdsOf(edDoc.nodes), B \in NodeIdsOf(edDoc.nodes) :
    (B = A \/ B \in DescendantIds(edDoc.nodes, A)) =>
       LET r == CanReparent(edDoc.nodes, A, B)
       IN ~r.overflow /\ r.value = FALSE

\* following parentId from the node with this id comes back to it (or never ends)
OnParentCycle(nodes, id) ==
  LET r == IsAncestor(nodes, id, id)
  IN r.overflow \/ r.value

\* following children lists from the node with this id never ends
OnChildrenCycle(nodes, id) == NodesToRemove(nodes, id).overflow

\* C8: no node is its own parent, and neither the parentId relation nor the
\* children-list relation has a cycle.
C8_Forest ==
  \A i \in 1..Len(edDoc.nodes) :
    /\ edDoc.nodes[i].parentId # edDoc.nodes[i].id
    /\ ~OnParentCycle(edDoc.nodes, edDoc.nodes[i].id)
    /\ ~OnChildrenCycle(edDoc.nodes, edDoc.nodes[i].id)

\* C9: between batches, C is listed in P.children iff C.parentId = P.id.
C9_ParentChildAgree ==
  \A i \in 1..Len(edDoc.nodes), j \in 1..Len(edDoc.nodes) :
    LET P == edDoc.nodes[i]
        C == edDoc.nodes[j]
    IN (P.hasChildren /\ C.id \in SeqRange(P.children)) <=> (C.parentId = P.id)

\* C10: the batch of ungroupNodes for a container whose children all exist
\* removes the container only; every listed child stays and has no parent.
C10_UngroupKeepsChildren ==
  [][\A g \in NodeIdsOf(edDoc.nodes) :
       LET u == UngroupNodes(edDoc.nodes, g)
           kids == ChildIdsOf(edDoc.nodes, g)
       IN ( /\ ~u.threw
            /\ kids \subseteq NodeIdsOf(edDoc.nodes) \ {g}
            /\ edCount' = edCount + 1
            /\ edLast'.kind = "ungroup"
            /\ edLast'.ops = u.ops )
          => /\ ~edLast'.threw
             /\ NodeIdsOf(edDoc'.nodes) = NodeIdsOf(edDoc.nodes) \ {g}
             /\ \A c \in kids :
                  edDoc'.nodes[FindNode(edDoc'.nodes, c)].parentId = NoParent]_vars

\* the step is handleGroupSelected handing the batch of groupNodes(doc, sel)
\* to handleDocChange
IsGroupStep(sel, g) ==
  /\ edCount' = edCount + 1
  /\ edLast'.kind = "group"
  /\ edLast'.ops = GroupNodes(edDoc.nodes, sel, g).ops

\* C11: the batch of groupNodes for two or more existing ids leaves exactly one
\* new container whose children list is the given ids in the given order, every
\* given node has the container as parentId, and a remove of the container
\* afterwards returns and removes the container and every grouped node.
C11_GroupResult ==
  [][\A sel \in Selections, g \in GenIds :
       ( /\ Len(sel) >= 2
         /\ SeqRange(sel) \subseteq NodeIdsOf(edDoc.nodes)
         /\ IsGroupStep(sel, g) )
       => /\ ~edLast'.threw
          /\ g \notin NodeIdsOf(edDoc.nodes)
          /\ Cardinality({i \in 1..Len(edDoc'.nodes) : edDoc'.nodes[i].id = g}) = 1
          /\ LET c == edDoc'.nodes[FindNode(edDoc'.nodes, g)]
             IN c.hasChildren /\ c.children = sel
          /\ \A i \in 1..Len(edDoc'.nodes) :
               edDoc'.nodes[i].id \in SeqRange(sel) => edDoc'.nodes[i].parentId = g
          /\ LET r == ApplyOp(edDoc', OpRemove(g))
             IN /\ ~r.threw
                /\ NodeIdsOf(r.nodes) \cap ({g} \cup SeqRange(sel)) = {}]_vars

\* C12: groupNodes called with fewer than two ids, or with an id that matches
\* no node, raises; no operation is emitted and the document is unchanged.
C12_GroupRejects ==
  [][\A sel \in Selections, g \in GenIds :
       ( /\ Len(sel) < 2 \/ ~(SeqRange(sel) \subseteq NodeIdsOf(edDoc.nodes))
         /\ GroupSelected(sel, g) )
       => /\ GroupNodes(edDoc.nodes, sel, g).threw
          /\ GroupNodes(edDoc.nodes, sel, g).ops = <<>>
          /\ edLast'.threw /\ edLast'.ops = <<>>
          /\ edDoc' = edDoc]_vars

\* a rejected group request on a document that has nodes at a version above 3
C12_Witness ==
  /\ edLast.kind = "group" /\ edLast.threw /\ edLast.ops = <<>>
  /\ Len(edDoc.nodes) >= 3 /\ edDoc.version > 3

(***************************************************************************)
(* Properties of the broadcast (SpecFanout, Spec)                          *)
(***************************************************************************)
\* the step is POST /v1/ops storing the batch json for document d, with the
\* sends to the channels of failed raising
IsStoredOpsStep(d, json, failed) ==
  /\ PostOps(d, json, failed)
  /\ d \in DOMAIN docs
  /\ last'.ok

\* the ops message of the batch a step has just appended to d's log
DeltaOf(d) ==
  OpsMsg(Slice(GetAllOps(opLogs', d), Len(GetAllOps(opLogs, d))), docs'[d].version)

\* C13: when a batch is stored and no send fails, each of the N subscribers of
\* the document is sent exactly one more message, the same ops message (the
\* stored operations and the stored version), and no other channel is sent any.
C13_FanOut ==
  [][\A d \in DocIds, json \in Payloads :
       IsStoredOpsStep(d, json, {}) =>
         LET subs == SubscribersOf(subscribers, d)
         IN /\ \A w \in subs : inbox'[w] = Append(inbox[w], DeltaOf(d))
            /\ \A w \in DOMAIN inbox \ subs : inbox'[w] = inbox[w]
            /\ DeltaOf(d).ops = ValidateOps(json).ops
            /\ DeltaOf(d).version = ApplyOps(docs[d], ValidateOps(json).ops).version
            /\ Cardinality({w \in DOMAIN inbox : inbox'[w] # inbox[w]}) = Cardinality(subs)]_vars

\* two subscribers have each been sent the ops message of the same stored batch
C13_Witness ==
  /\ SubscribersOf(subscribers, "d1") = {"w1", "w2"}
  /\ last.h = "ops" /\ last.ok /\ last.n = 1
  /\ \A w \in {"w1", "w2"} :
       /\ Len(inbox[w]) = 2
       /\ inbox[w][2] = OpsMsg(GetAllOps(opLogs, "d1"), 1)

\* the operations of the ops messages of a channel's inbox from position i on
RECURSIVE DeliveredOps(_, _)
DeliveredOps(box, i) ==
  IF i > Len(box) THEN <<>>
  ELSE (IF box[i].type = "ops" THEN box[i].ops ELSE <<>>) \o DeliveredOps(box, i + 1)

\* C14: a channel's first message is its only hello; every later message is an
\* ops message whose version is greater than the version of the message before
\* it and continues it without a gap (previous version + operations carried).
C14_MessageOrder ==
  \A w \in DOMAIN inbox :
    /\ wsState[w].st = "open" => Len(inbox[w]) >= 1
    /\ \A i \in 1..Len(inbox[w]) :
         IF i = 1 THEN inbox[w][i].type = "hello"
         ELSE /\ inbox[w][i].type = "ops"
              /\ inbox[w][i].version > inbox[w][i - 1].version
              /\ inbox[w][i].version = inbox[w][i - 1].version + Len(inbox[w][i].ops)

\* C15: for a channel that is still subscribed, the snapshot of its hello
\* message with the operations delivered afterwards applied in delivery order
\* has the node list of the stored snapshot.
C15_SubscriberConvergence ==
  \A w \in DOMAIN inbox :
    (wsState[w].st = "open" /\ w \in SubscribersOf(subscribers, wsState[w].docId)) =>
       LET hello == inbox[w][1]
           r == ApplyOps(Doc(hello.snapshot, hello.version), DeliveredOps(inbox[w], 2))
       IN ~r.threw /\ r.nodes = docs[wsState[w].docId].nodes

\* C16: a channel whose subscribe attempt named no stored document (or no
\* document at all) is closed, is in no subscriber set and has been sent nothing.
C16_RejectedSubscribe ==
  \A w \in DOMAIN wsState :
    (wsState[w].st = "closed" /\ wsState[w].docId = "") =>
       /\ inbox[w] = <<>>
       /\ \A d \in DOMAIN subscribers : w \notin subscribers[d]

\* a rejected channel, while a batch has been stored and broadcast to another
C16_Witness ==
  /\ wsState["w1"].st = "closed" /\ wsState["w1"].docId = ""
  /\ wsState["w2"].st = "open"
  /\ Len(inbox["w2"]) = 2 /\ inbox["w2"][2].type = "ops"

\* C17: when sends fail during the broadcast of a stored batch, the failing
\* channels leave the subscriber set and are sent nothing, every other
\* subscriber is sent the ops message, and the snapshot and the log hold the
\* batch; a channel out of the subscriber set is never sent a message again.
C17_FailureIsolation ==
  [][/\ \A d \in DocIds, json \in Payloads, failed \in SUBSET DOMAIN wsState :
          (failed # {} /\ IsStoredOpsStep(d, json, failed)) =>
            LET subs == SubscribersOf(subscribers, d)
                ops == ValidateOps(json).ops
            IN /\ SubscribersOf(subscribers', d) = subs \ failed
               /\ \A w \in failed : inbox'[w] = inbox[w]
               /\ \A w \in subs \ failed : inbox'[w] = Append(inbox[w], DeltaOf(d))
               /\ docs'[d] = ApplyOps(docs[d], ops)
               /\ opLogs'[d] = opLogs[d] \o ops
     /\ \A w \in DOMAIN wsState :
          (wsState[w].st = "open" /\ w \notin SubscribersOf(subscribers, wsState[w].docId)) =>
            /\ inbox'[w] = inbox[w]
            /\ w \notin SubscribersOf(subscribers', wsState[w].docId)]_vars

\* w1 was dropped by a failed send; w2 was sent the ops message of a stored batch
C17_Witness ==
  /\ wsState["w1"].st = "open" /\ wsState["w2"].st = "open"
  /\ SubscribersOf(subscribers, "d1") = {"w2"}
  /\ Len(inbox["w1"]) = 1
  /\ Len(inbox["w2"]) = 2 /\ inbox["w2"][2].type = "ops" /\ inbox["w2"][2].ops # <<>>
  /\ docs["d1"].version = 2

\* C18: a POST /v1/ops payload with an invalid element is rejected whole: the
\* snapshot, the version, the log, the subscriber sets and the inboxes stay as
\* they were, whatever valid operations the payload also holds.
C18_MalformedUntouched ==
  [][\A d \in ReqDocIds, json \in Payloads :
       ((\E i \in 1..Len(json) : ~ValidOp(json[i])) /\ PostOps(d, json, {})) =>
          /\ UNCHANGED <<docs, opLogs, subscribers, inbox>>
          /\ ~last'.ok]_vars

\* a rejected POST /v1/ops on a stored document that has a node and a subscriber
C18_Witness ==
  /\ last = Rejected("ops", "d1")
  /\ "d1" \in DOMAIN docs /\ docs["d1"].nodes # <<>>
  /\ SubscribersOf(subscribers, "d1") # {}

\* C19: a step that changes a stored document or its log appends one batch to
\* the log, leaves the snapshot that the whole batch gives when applied to the
\* snapshot stored before, and raises the stored version by exactly 1; any
\* other step leaves snapshot, log and version as they were.
C19_BatchAtomicity ==
  [][\A d \in DOMAIN docs :
       (docs'[d] # docs[d] \/ GetAllOps(opLogs', d) # GetAllOps(opLogs, d)) =>
          LET ops == Slice(GetAllOps(opLogs', d), Len(GetAllOps(opLogs, d)))
          IN /\ GetAllOps(opLogs', d) = GetAllOps(opLogs, d) \o ops
             /\ docs'[d].nodes = ApplyOps(docs[d], ops).nodes
             /\ docs'[d].version = docs[d].version + 1]_vars

(***************************************************************************)
(* Properties of the operation engine, continued (SpecEngine)              *)
(***************************************************************************)
\* the id an operation looks up: parentId for addChild / removeChild, id otherwise
TargetOf(op) == IF op.t \in {"addChild", "removeChild"} THEN op.parentId ELSE op.id

\* op is not an add and its target matches no node
Dangling(nodes, op) == op.t # "add" /\ TargetOf(op) \notin NodeIdsOf(nodes)

\* C20: an operation whose target matches no node returns and leaves the node
\* list as it was, and an operation that follows it in the same batch is applied
\* as if it stood alone.
C20_DanglingNoOp ==
  [][\A op \in EdOps :
       (Dangling(edDoc.nodes, op) /\ IsEditStep(op)) =>
          /\ ~edLast'.threw
          /\ edDoc'.nodes = edDoc.nodes
          /\ \A op2 \in EdOps :
               LET both == ApplyOps(edDoc, <<op, op2>>)
                   alone == ApplyOp(edDoc, op2)
               IN both.threw = alone.threw /\ both.nodes = alone.nodes]_vars

\* a reorder of an id that matches no node has been applied to a document with nodes
C20_Witness ==
  /\ edLast.kind = "apply" /\ edLast.ops = <<OpReorder("a", -5)>> /\ ~edLast.threw
  /\ "a" \notin NodeIdsOf(edDoc.nodes)
  /\ Len(edDoc.nodes) >= 1

\* C21: applyOp is total: on every document the editor can hold, every
\* operation returns a document (no call raises), a remove included.
C21_ApplyOpTotal ==
  \A op \in EdOps : ~ApplyOp(edDoc, op).threw

ReadSnapshots(d) ==
  {docs[d]} \cup {reqs[r].doc : r \in {x \in Reqs : reqs[x].state = "awaiting" /\ reqs[x].docId = d}}

\* C23: the stored snapshot only ever changes to the result of one whole batch
\* (the operations the step appends to the log) applied to a snapshot that
\* getDoc returned, and what getDoc returns to a new subscriber or to a
\* mutation request is the stored snapshot: no reader sees part of a batch.
C23_AtomicPublication ==
  [][/\ \A d \in DOMAIN docs :
          docs'[d] # docs[d] =>
            LET ops == Slice(GetAllOps(opLogs', d), Len(GetAllOps(opLogs, d)))
            IN /\ GetAllOps(opLogs', d) = GetAllOps(opLogs, d) \o ops
               /\ \E base \in ReadSnapshots(d) :
                    LET r == ApplyOps(base, ops)
                    IN ~r.threw /\ docs'[d] = r
     /\ \A r \in Reqs :
          (reqs[r].state = "idle" /\ reqs'[r].state = "awaiting") =>
             reqs'[r].doc = docs[reqs'[r].docId]
     /\ \A w \in DOMAIN wsState :
          (wsState[w].st = "new" /\ wsState'[w].st = "open") =>
             inbox'[w] = <<HelloMsg(docs[wsState'[w].docId])>>]_vars

\* a subscriber's hello carries a snapshot that a stored batch of two operations gave
C23_Witness ==
  \E w \in DOMAIN wsState :
    /\ wsState[w].st = "open" /\ Len(inbox[w]) >= 1
    /\ inbox[w][1].version = 2 /\ inbox[w][1].snapshot # <<>>
    /\ last.h = "ops" /\ last.ok /\ last.n = 2

\* C24: the log of a document only grows at its end: after every step the log
\* is still there and the log before the step is a prefix of it.
C24_HistoryAppendOnly ==
  [][\A d \in DOMAIN opLogs :
       /\ d \in DOMAIN opLogs'
       /\ Len(opLogs'[d]) >= Len(opLogs[d])
       /\ SubSeq(opLogs'[d], 1, Len(opLogs[d])) = opLogs[d]]_vars

\* a second batch has been appended behind a first one, by the two handlers
C24_Witness ==
  /\ Len(GetAllOps(opLogs, "d1")) = 2
  /\ last.h = "generate" /\ last.ok /\ last.n = 1 /\ last.overlapped

\* C25: between requests the length of a document's log equals the version of
\* its stored snapshot (a batch is appended at the index that equals the
\* version it was applied at).
C25_PositionEqualsVersion ==
  \A d \in DOMAIN docs : Len(GetAllOps(opLogs, d)) = docs[d].version

\* the since values GET /v1/doc/:id can pass to store.getOpsSince
SinceValues == (0 - (MaxLog + 1))..(MaxLog + 1)

\* the operations of a log stored at (0-based) indices >= v, in log order
RECURSIVE OpsAtOrAfter(_, _, _)
OpsAtOrAfter(log, v, i) ==
  IF i > Len(log) THEN <<>>
  ELSE (IF i - 1 >= v THEN <<log[i]>> ELSE <<>>) \o OpsAtOrAfter(log, v, i + 1)

\* C26: for every since value, getOpsSince returns exactly the operations
\* stored at log indices >= since, in log order.
C26_HistorySince ==
  \A d \in DOMAIN docs, v \in SinceValues :
    GetOpsSince(opLogs, d, v) = OpsAtOrAfter(GetAllOps(opLogs, d), v, 1)

\* the step is a mutation request that names a document the store does not hold
IsUnknownDocStep(d) ==
  /\ d \notin DOMAIN docs
  /\ \/ \E json \in Payloads : PostOps(d, json, {})
     \/ \E r \in Reqs : GenerateStart(r, d)

\* the store and the inboxes after a request that must not touch them
StoreUntouched == UNCHANGED <<docs, opLogs, subscribers, inbox, reqs>>

\* C27 as stated: every POST /v1/ops and POST /v1/generate that names an
\* unknown document is answered 404 and leaves the store and the inboxes as
\* they were.
C27_UnknownDocNotFound ==
  [][\A d \in ReqDocIds :
       IsUnknownDocStep(d) => (last'.code = 404 /\ StoreUntouched)]_vars

\* C27 amended: a request that names an unknown document creates no document
\* and no log, changes no document and broadcasts nothing; POST /v1/generate,
\* and POST /v1/ops with a payload that validates, are answered 404, and
\* POST /v1/ops with a payload that fails validation is answered 400.
C27_UnknownDocUntouched ==
  [][\A d \in ReqDocIds :
       /\ IsUnknownDocStep(d) => (~last'.ok /\ StoreUntouched)
       /\ \A r \in Reqs : (d \notin DOMAIN docs /\ GenerateStart(r, d)) => last'.code = 404
       /\ \A json \in Payloads :
            (d \notin DOMAIN docs /\ PostOps(d, json, {})) =>
               last'.code = IF ValidateOps(json).ok THEN 404 ELSE 400]_vars

\* a valid batch for a docId the store does not hold was answered 404 while d1 is stored with a
\* node and a subscriber
C27_Witness ==
  /\ last = NotFound("ops", "")
  /\ "d1" \in DOMAIN docs /\ docs["d1"].nodes # <<>>
  /\ SubscribersOf(subscribers, "d1") # {}

\* C28: when generateOps fails (the service call fails, or its output fails
\* validation), POST /v1/generate leaves the snapshot, the version, the log,
\* the subscriber sets and the inboxes as they were.
C28_GenerateFailureUntouched ==
  [][\A r \in Reqs :
       ( \/ GenerateFail(r)
         \/ \E json \in Payloads :
              /\ \E i \in 1..Len(json) : ~ValidOp(json[i])
              /\ GenerateResolve(r, json, {}) )
       => /\ UNCHANGED <<docs, opLogs, subscribers, inbox>>
          /\ ~last'.ok]_vars

\* a generation has failed on a stored document that has a node and a subscriber
C28_Witness ==
  /\ last = Rejected("generate", "d1")
  /\ docs["d1"].nodes # <<>>
  /\ SubscribersOf(subscribers, "d1") # {}

(***************************************************************************)
(* Properties of the two-document server (SpecDocs, SpecFanout)            *)
(***************************************************************************)
\* the step changes what the store holds for document d
StoreChanged(d) ==
  \/ docs'[d] # docs[d]
  \/ GetAllOps(opLogs', d) # GetAllOps(opLogs, d)
  \/ SubscribersOf(subscribers', d) # SubscribersOf(subscribers, d)

\* the document a step is for: the docId of the socket that connects or
\* closes, else the docId of the mutation request
StepDocId ==
  IF \E w \in DOMAIN wsState : wsState'[w] # wsState[w]
  THEN LET w == CHOOSE x \in DOMAIN wsState : wsState'[x] # wsState[x]
       IN IF wsState'[w].st = "open" THEN wsState'[w].docId ELSE wsState[w].docId
  ELSE last'.docId

\* C29: a step for document A leaves the snapshot, the version, the log and
\* the subscriber set of every other stored document as they were, and the ops
\* message of a batch of A is sent to no channel subscribed to another document.
C29_DocumentsIndependent ==
  [][/\ \A b \in DOMAIN docs : StoreChanged(b) => b = StepDocId
     /\ \A w \in DOMAIN wsState :
          (wsState[w].st = "open" /\ inbox'[w] # inbox[w]) =>
             /\ wsState[w].docId = last'.docId
             /\ inbox'[w] = Append(inbox[w], DeltaOf(last'.docId))]_vars

\* both documents are stored, each with its own subscriber; d1 has a node and
\* its subscriber was sent the ops message, d2 and its subscriber were not touched
C29_Witness ==
  /\ DOMAIN docs = {"d1", "d2"}
  /\ SubscribersOf(subscribers, "d1") = {"w1"} /\ SubscribersOf(subscribers, "d2") = {"w2"}
  /\ docs["d1"].version = 1 /\ docs["d2"] = NewDoc /\ GetAllOps(opLogs, "d2") = <<>>
  /\ Len(inbox["w1"]) = 2 /\ inbox["w1"][2].type = "ops"
  /\ inbox["w2"] = <<HelloMsg(NewDoc)>>

\* C30: a channel that has closed is in no subscriber set and is sent nothing
\* by any later step, and the step that closes it leaves every other channel's
\* membership and inbox as they were.
C30_UnsubscribeOnClose ==
  [][\A w \in DOMAIN wsState :
       /\ wsState'[w].st = "closed" =>
            \A d \in DOMAIN subscribers' : w \notin subscribers'[d]
       /\ wsState[w].st = "closed" => inbox'[w] = inbox[w]
       /\ (wsState[w].st = "open" /\ wsState'[w].st = "closed") =>
            /\ \A d \in DOMAIN docs :
                 SubscribersOf(subscribers', d) = SubscribersOf(subscribers, d) \ {w}
            /\ inbox' = inbox]_vars

\* w1 subscribed and closed; a batch stored afterwards was sent to w2 only
C30_Witness ==
  /\ wsState["w1"].st = "closed" /\ wsState["w1"].docId = "d1"
  /\ inbox["w1"] = <<HelloMsg(NewDoc)>>
  /\ SubscribersOf(subscribers, "d1") = {"w2"}
  /\ Len(inbox["w2"]) = 2 /\ inbox["w2"][2].type = "ops" /\ inbox["w2"][2].ops # <<>>

(***************************************************************************)
(* Properties of the operation engine, continued (SpecEngine)              *)
(***************************************************************************)
\* the nodes a selection names, in the order of the selection
SelectedNodes(nodes, sel) == [k \in 1..Len(sel) |-> nodes[FindNode(nodes, sel[k])]]

\* C31: the container groupNodes adds for two or more existing nodes has
\* x = min(x_i) - 20, y = min(y_i) - 20, width = max(x_i + width_i) - min(x_i) + 40
\* and height = max(y_i + height_i) - min(y_i) + 40.
C31_GroupBounds ==
  [][\A sel \in Selections, g \in GenIds :
       ( /\ Len(sel) >= 2
         /\ SeqRange(sel) \subseteq NodeIdsOf(edDoc.nodes)
         /\ IsGroupStep(sel, g) )
       => LET ns == SelectedNodes(edDoc.nodes, sel)
              K == 1..Len(ns)
              minX == MinOf({ns[k].x : k \in K})
              minY == MinOf({ns[k].y : k \in K})
              c == edDoc'.nodes[FindNode(edDoc'.nodes, g)]
          IN /\ c.x = minX - 20
             /\ c.y = minY - 20
             /\ c.width = MaxOf({ns[k].x + ns[k].width : k \in K}) - minX + 40
             /\ c.height = MaxOf({ns[k].y + ns[k].height : k \in K}) - minY + 40]_vars

(***************************************************************************)
(* Properties of validated batches and of the editor's load (SpecLoad)     *)
(***************************************************************************)
\* C32: in every stored document reached through validated batches, the ids
\* of the nodes are pairwise distinct.
C32_UniqueIds ==
  \A d \in DOMAIN docs :
    \A i \in 1..Len(docs[d].nodes), j \in 1..Len(docs[d].nodes) :
      i # j => docs[d].nodes[i].id # docs[d].nodes[j].id

\* C33: in every stored document reached through batches that passed
\* validateOps, every node has x >= 0, y >= 0, width >= 1 and height >= 1.
C33_GeometryInvariant ==
  \A d \in DOMAIN docs :
    \A i \in 1..Len(docs[d].nodes) :
      LET n == docs[d].nodes[i]
      IN n.x >= 0 /\ n.y >= 0 /\ n.width >= 1 /\ n.height >= 1

\* C39: when the editor page loads a document with a non-empty history, the
\* node list it ends with equals the node list of the snapshot the server
\* stores.
C39_LoadEqualsServer ==
  [][\A d \in DocIds :
       ( /\ d \in DOMAIN docs
         /\ GetAllOps(opLogs, d) # <<>>
         /\ LoadDocument(d) )
       => edDoc'.nodes = docs[d].nodes]_vars

(***************************************************************************)
(* Properties of the server, continued (Spec)                              *)
(***************************************************************************)
\* C34: whenever a subscriber is sent an ops message, the handler's batch was
\* accepted, the store already holds the new snapshot and the history ends
\* with the batch, and the version in the message and in the HTTP response is
\* the version of the stored snapshot; the response of every batch that
\* changed the store carries the stored version too.
C34_PublishOrder ==
  [][/\ \A w \in DOMAIN inbox :
          ( /\ Len(inbox'[w]) = Len(inbox[w]) + 1
            /\ inbox'[w][Len(inbox'[w])].type = "ops" )
          => LET m == inbox'[w][Len(inbox'[w])]
                 d == last'.docId
                 log == GetAllOps(opLogs', d)
             IN /\ last'.ok
                /\ last'.code = 200
                /\ d \in DOMAIN docs'
                /\ docs'[d].version = m.version
                /\ last'.post = m.version
                /\ Len(log) = Len(GetAllOps(opLogs, d)) + Len(m.ops)
                /\ SubSeq(log, Len(log) - Len(m.ops) + 1, Len(log)) = m.ops
     /\ (last'.ok /\ (docs' # docs \/ opLogs' # opLogs))
          => /\ last'.docId \in DOMAIN docs'
             /\ last'.post = docs'[last'.docId].version]_vars

\* a generated batch was stored and a subscriber holds its delta, whose
\* version is the version of the stored snapshot
C34_Witness ==
  /\ last.ok
  /\ last.h = "generate"
  /\ last.n >= 1
  /\ \E w \in DOMAIN inbox :
       /\ inbox[w] # <<>>
       /\ LET m == inbox[w][Len(inbox[w])]
          IN /\ m.type = "ops"
             /\ m.ops # <<>>
             /\ m.version = docs[last.docId].version
             /\ m.version = last.post

(***************************************************************************)
(* Properties of the operation engine, frames and structure (SpecEngine)   *)
(***************************************************************************)
\* C35: an update leaves the node list's length and order as they were; in
\* every node whose id matches, the attributes the patch names take the
\* patch's values and the others keep theirs; every other node is unchanged.
C35_UpdateFrame ==
  [][\A op \in EdOps :
       (op.t = "update" /\ IsEditStep(op))
       => /\ ~edLast'.threw
          /\ Len(edDoc'.nodes) = Len(edDoc.nodes)
          /\ \A i \in 1..Len(edDoc.nodes) :
               LET n == edDoc.nodes[i]
                   m == edDoc'.nodes[i]
               IN IF n.id = op.id
                  THEN \A f \in DOMAIN n :
                         m[f] = IF f \in DOMAIN op.patch THEN op.patch[f] ELSE n[f]
                  ELSE m = n]_vars

\* the update of c's y has been applied next to other nodes: c has the new y
\* and its old x
C35_Witness ==
  /\ edLast.kind = "apply"
  /\ edLast.ops = <<OpUpdate("c", [y |-> 7])>>
  /\ ~edLast.threw
  /\ Len(edDoc.nodes) >= 2
  /\ \E i \in 1..Len(edDoc.nodes) :
       /\ edDoc.nodes[i].id = "c"
       /\ edDoc.nodes[i].y = 7
       /\ edDoc.nodes[i].x = 16

\* C36: a reparent changes the parentId of the nodes with the target id and
\* nothing else, no children list included; an addChild or removeChild changes
\* the children list of the nodes with the parent's id and nothing else, no
\* parentId included.
C36_Uncoordinated ==
  [][\A op \in EdOps :
       IsEditStep(op) =>
         /\ op.t = "reparent" =>
              /\ ~edLast'.threw
              /\ Len(edDoc'.nodes) = Len(edDoc.nodes)
              /\ \A i \in 1..Len(edDoc.nodes) :
                   LET n == edDoc.nodes[i]
                       m == edDoc'.nodes[i]
                   IN /\ m.hasChildren = n.hasChildren
                      /\ m.children = n.children
                      /\ IF n.id = op.id
                         THEN /\ m.parentId = op.parentId
                              /\ \A f \in DOMAIN n \ {"parentId"} : m[f] = n[f]
                         ELSE m = n
         /\ op.t \in {"addChild", "removeChild"} =>
              /\ ~edLast'.threw
              /\ Len(edDoc'.nodes) = Len(edDoc.nodes)
              /\ \A i \in 1..Len(edDoc.nodes) :
                   LET n == edDoc.nodes[i]
                       m == edDoc'.nodes[i]
                   IN /\ m.parentId = n.parentId
                      /\ IF n.id = op.parentId
                         THEN \A f \in DOMAIN n \ {"children", "hasChildren"} : m[f] = n[f]
                         ELSE m = n]_vars

\* b has been reparented under a, and a, present, does not list b
C36_Witness ==
  /\ edLast.kind = "apply"
  /\ edLast.ops = <<OpReparent("b", "a")>>
  /\ ~edLast.threw
  /\ \E i \in 1..Len(edDoc.nodes), j \in 1..Len(edDoc.nodes) :
       /\ edDoc.nodes[i].id = "b"
       /\ edDoc.nodes[i].parentId = "a"
       /\ edDoc.nodes[j].id = "a"
       /\ "b" \notin SeqRange(ChildrenOrEmpty(edDoc.nodes[j]))

\* C37: on every reachable document, canReparent, isAncestor, getNodeDepth
\* and getAllDescendants return for every pair of node ids.
C37_AccessorsTerminate ==
  \A A \in NodeIdsOf(edDoc.nodes), B \in NodeIdsOf(edDoc.nodes) :
    /\ ~CanReparent(edDoc.nodes, A, B).overflow
    /\ ~IsAncestor(edDoc.nodes, A, B).overflow
    /\ ~GetNodeDepth(edDoc.nodes, A).overflow
    /\ ~GetAllDescendants(edDoc.nodes, A).overflow

\* C38: every id in a children list and every parentId names a node of the
\* document.
C38_ReferentialIntegrity ==
  \A i \in 1..Len(edDoc.nodes) :
    LET n == edDoc.nodes[i]
    IN /\ n.parentId # NoParent => n.parentId \in NodeIdsOf(edDoc.nodes)
       /\ SeqRange(ChildrenOrEmpty(n)) \subseteq NodeIdsOf(edDoc.nodes)

\* C40: for every node P of the document and every id C, addChild(P, C)
\* followed by removeChild(P, C) gives P the children list it had before.
C40_AddRemoveChildRoundTrip ==
  \A i \in 1..Len(edDoc.nodes), C \in NodeIds :
    LET P == edDoc.nodes[i].id
        after == ApplyOps(edDoc, <<OpAddChild(P, C), OpRemoveChild(P, C)>>)
    IN /\ ~after.threw
       /\ ChildrenOrEmpty(after.nodes[i]) = ChildrenOrEmpty(edDoc.nodes[i])

====
